---- MODULE Spec2Model ----
(***************************************************************************)
(* Shot detection of ShotDoctor: LiveShotDetector (api/core/               *)
(* live_analysis.py) and ShotDetectionDebugger (api/core/                  *)
(* debug_shot_detection.py).  One call of update / process_frame is one    *)
(* step.  Buffer indices are the 0-based indices of the Python lists; a    *)
(* frame image is represented by the number of the frame it was read from. *)
(* Angles are whole degrees, y coordinates and visibilities are percent.   *)
(***************************************************************************)
EXTENDS Integers, Sequences, FiniteSets, TLC

(* ------------------------- program constants -------------------------- *)
MAX_BUFFER_LIVE == 180
MAX_BUFFER_DEBUG == 200
STABILITY_REQUIRED == 8
RELEASE_ANGLE == 155
MIN_SHOT_FRAMES == 10
COOLDOWN_FRAMES == 45
NO_SHOT_YET == -100
SEARCH_WINDOW == 60
PAD_FRAMES == 5
VIS_THRESHOLD == 50
DEFAULT_RELEASE_ANGLE == 170
None == -1
Inf == 100000

(* ------------------------------ bounds -------------------------------- *)
\* number of frames fed to a detector
MaxFrames == 240
\* number of frames read by the frame loop that hands events to analysis
MaxAsyncFrames == 70
\* number of frames fed to a detector whose attributes were reassigned
MaxConfigFrames == 130
\* number of frames read by the frame loop of a session whose callbacks
\* are followed statement by statement
MaxSessionFrames == 58
\* number of passes of the frame loop while one callback is running
MaxCallbackPasses == 1
\* number of frames of a video sent to /analyze
MaxScanFrames == 70
\* the subject keeps one motion for Stride frames before it may change
Stride == 60

\* what time.time() may read when an event is built: on time, or late
Ticks == {0, 1}

(* --------------------------- frames fed ------------------------------- *)
\* What the pose estimator reports for one frame: which lead-side joints
\* are in the landmark map, the elbow angle their positions give
\* (_calculate_angle), the y of wrist and shoulder, and the visibilities.
Frame(sh, el, wr, ang, wy, sy, vs, ve, vw) ==
    [shoulder |-> sh, elbow |-> el, wrist |-> wr, angle |-> ang,
     wrist_y |-> wy, shoulder_y |-> sy,
     vis_shoulder |-> vs, vis_elbow |-> ve, vis_wrist |-> vw]

Good(ang, wy) == Frame(TRUE, TRUE, TRUE, ang, wy, 40, 90, 90, 90)

Motions == {"hold", "gone", "shot", "jitter", "edge"}

\* Frame k (0-based) of a motion.
\*   hold   : arm extended above the shoulder, well visible
\*   gone   : a lead-side joint is missing (empty map, or one joint absent)
\*   shot   : 20 frames bending from 170 to 80, 15 frames extending back to
\*            170, then extended
\*   jitter : arm sinking one degree per frame with a one-frame extension
\*            above the release threshold every fourth frame
\*   edge   : the boundary values: angle exactly 155; wrist level with the
\*            shoulder; one visibility exactly 0.5
MotionFrame(m, k) ==
    CASE m = "hold" -> Good(170, 30)
      [] m = "gone" ->
            CASE k % 4 = 0 -> Frame(FALSE, FALSE, FALSE, 170, 30, 40, 0, 0, 0)
              [] k % 4 = 1 -> Frame(FALSE, TRUE, TRUE, 170, 30, 40, 0, 90, 90)
              [] k % 4 = 2 -> Frame(TRUE, FALSE, TRUE, 170, 30, 40, 90, 0, 90)
              [] OTHER     -> Frame(TRUE, TRUE, FALSE, 170, 30, 40, 90, 90, 0)
      [] m = "shot" ->
            IF k < 20 THEN Good(170 - (90 * (k + 1)) \div 20,
                                IF k < 10 THEN 30 ELSE 60)
            ELSE IF k < 35 THEN Good(80 + 6 * (k - 19),
                                     IF k < 27 THEN 60 ELSE 30)
            ELSE Good(170, 30)
      [] m = "jitter" ->
            IF k % 4 = 3 THEN Good(170, 30) ELSE Good(150 - k, 30)
      [] OTHER ->
            CASE k % 30 < 10 -> Good(155, 30)
              [] k % 30 < 20 -> Good(170, 40)
              [] OTHER       -> Frame(TRUE, TRUE, TRUE, 170, 30, 40, 90, 50, 90)

(* ------------------------------ state --------------------------------- *)
VARIABLES
    variant,          \* "live": LiveShotDetector, "debug": ShotDetectionDebugger
    script,           \* the motions fed so far, one per Stride frames
    n,                \* number of update / process_frame calls made
    frames_buffer,    \* self.frames_buffer
    landmarks_buffer, \* self.landmarks_buffer (live): a landmark map is
                      \* represented by the number of its frame
    elbow_angles,     \* self.elbow_angles (live)
    wrist_heights,    \* self.wrist_heights (live)
    metrics_buffer,   \* self.metrics_buffer (debug)
    stability_count,  \* self.stability_count
    last_shot_frame,  \* self.last_shot_frame
    shot_count,       \* self.shot_count (debug)
    shots,            \* the events returned so far (debug: self.shots)
    ret,              \* what the last call returned: <<>> or <<event>>
    last_reject,      \* number of the last frame whose release candidate
                      \* _create_shot(_from_release) rejected; None if none
    release_arg,      \* release_idx passed to _create_shot(_from_release)
                      \* by the last call; None if it did not get there
    ref_last_shot_frame, \* reference detector without eviction: last release
    ref_shots,        \* reference detector without eviction: its events
    twin,             \* a second detector of the same class and side
    total_shots,      \* self.state.total_shots of the caller (live)
    handed,           \* the last returned event as the caller passes it on
                      \* (live: after it set shot_number): <<>> or <<event>>
    numbers,          \* the ordinals of the events passed on so far
    drawn_over,       \* the frame arrays the caller has drawn overlays on
    enabled,          \* GeminiClient.enabled
    workers,          \* one entry per event given to analyze_shot_async:
                      \* the event object and the thread analysing it
    exited,           \* the frame loop has ended and the process with it
    attrs,            \* self.max_buffer and self.COOLDOWN_FRAMES: instance
                      \* attributes, set by __init__ and assignable after it
    request,          \* one request to the /analyze endpoint: where the
                      \* handler is, its lists and its response
    session,          \* self.state of LiveAnalyzer: shots_made,
                      \* shots_missed, shot_metrics, shot_history
    pose              \* the PoseDetector of LiveAnalyzer: frame_count, the
                      \* calls of detect_for_video and the timestamp of
                      \* the last, and the threads inside detect

vars == <<variant, script, n, frames_buffer, landmarks_buffer, elbow_angles,
          wrist_heights, metrics_buffer, stability_count, last_shot_frame,
          shot_count, shots, ret, last_reject, release_arg,
          ref_last_shot_frame, ref_shots, twin, total_shots, handed,
          numbers, drawn_over, enabled, workers, exited, attrs,
          request, session, pose>>

(* ----------------------------- helpers -------------------------------- *)
Max(a, b) == IF a >= b THEN a ELSE b
Min(a, b) == IF a <= b THEN a ELSE b

\* Python list indexing, 0-based
At(s, i) == s[i + 1]

\* Python truth value of an Optional[float]
Truthy(x) == x # None /\ x # 0

\* variant of Constructed: the debugger's copy of the cooldown has drifted
ConstructedDrifted ==
    [max_buffer |-> IF variant = "live" THEN MAX_BUFFER_LIVE
                    ELSE MAX_BUFFER_DEBUG,
     COOLDOWN_FRAMES |-> IF variant = "live" THEN COOLDOWN_FRAMES
                         ELSE COOLDOWN_FRAMES - 15]

\* the attributes as __init__ sets them
Constructed ==
    [max_buffer |-> IF variant = "live" THEN MAX_BUFFER_LIVE
                    ELSE MAX_BUFFER_DEBUG,
     COOLDOWN_FRAMES |-> COOLDOWN_FRAMES]

\* self.max_buffer
max_buffer == attrs.max_buffer

\* all([shoulder, elbow, wrist])
AllJoints(f) == f.shoulder /\ f.elbow /\ f.wrist

\* variant of VisOk: ">=" for ">"
VisOkLoose(f) ==
    /\ f.vis_shoulder >= VIS_THRESHOLD
    /\ f.vis_elbow >= VIS_THRESHOLD
    /\ f.vis_wrist >= VIS_THRESHOLD

\* visibility.get(..., 0) > 0.5 for the three joints
VisOk(f) ==
    /\ f.vis_shoulder > VIS_THRESHOLD
    /\ f.vis_elbow > VIS_THRESHOLD
    /\ f.vis_wrist > VIS_THRESHOLD

\* variant of ElbowAngle: 0 for None when a joint is missing
ElbowAngleZero(f) == IF AllJoints(f) THEN f.angle ELSE 0

\* the metrics computed at the top of update / process_frame
ElbowAngle(f) == IF AllJoints(f) THEN f.angle ELSE None
WristY(f) == IF AllJoints(f) THEN f.wrist_y ELSE None
WristAboveShoulder(f) == AllJoints(f) /\ f.wrist_y < f.shoulder_y

\* variant of NextStability: a frame of low visibility keeps the count
NextStabilityKeeps(sc, f) ==
    IF AllJoints(f) THEN (IF VisOk(f) THEN sc + 1 ELSE sc) ELSE 0

\* "if vis_ok: self.stability_count += 1 / else: self.stability_count = 0"
NextStability(sc, f) == IF AllJoints(f) /\ VisOk(f) THEN sc + 1 ELSE 0

\* FrameMetrics record of the debugger (timestamp_ms and the y values,
\* which nothing reads back, are left out)
Metrics(f, num) ==
    [frame_num |-> num, elbow_angle |-> ElbowAngle(f),
     wrist_height |-> WristY(f)]

\* The buffers and the cooldown index, as one value b:
\*   fb frames_buffer, lb landmarks_buffer, ea elbow_angles,
\*   wh wrist_heights, mb metrics_buffer, lsf last_shot_frame
Bufs(fb, lb, ea, wh, mb, lsf) ==
    [fb |-> fb, lb |-> lb, ea |-> ea, wh |-> wh, mb |-> mb, lsf |-> lsf]

\* Frame arrays are told apart by a number: the array the caller read
\* frame num into is -(num + 2), the copy update makes of it is num.
CallerFrame(num) == 0 - (num + 2)

\* variant of FrameCopy: the caller's array itself is stored
FrameNoCopy(num) == CallerFrame(num)

\* frame.copy()
FrameCopy(num) == num

\* "Store in buffers": the appends of update / process_frame
AppendFrame(b, f, num) ==
    IF variant = "live"
    THEN [b EXCEPT !.fb = Append(@, FrameCopy(num)), !.lb = Append(@, num),
                   !.ea = Append(@, ElbowAngle(f)),
                   !.wh = Append(@, WristY(f))]
    ELSE [b EXCEPT !.fb = Append(@, FrameCopy(num)),
                   !.mb = Append(@, Metrics(f, num))]

\* variant of PopOldest: last_shot_frame is not re-based
PopOldestNoRebase(b) ==
    IF variant = "live"
    THEN [b EXCEPT !.fb = Tail(@), !.lb = Tail(@), !.ea = Tail(@),
                   !.wh = Tail(@)]
    ELSE [b EXCEPT !.fb = Tail(@), !.mb = Tail(@)]

\* variant of PopOldest: last_shot_frame is decremented also at 0
PopOldestNoClamp(b) ==
    IF variant = "live"
    THEN [b EXCEPT !.fb = Tail(@), !.lb = Tail(@), !.ea = Tail(@),
                   !.wh = Tail(@), !.lsf = @ - 1]
    ELSE [b EXCEPT !.fb = Tail(@), !.mb = Tail(@), !.lsf = @ - 1]

\* one pass of the loop body of _trim_buffer
PopOldest(b) ==
    IF variant = "live"
    THEN [b EXCEPT !.fb = Tail(@), !.lb = Tail(@), !.ea = Tail(@),
                   !.wh = Tail(@),
                   !.lsf = IF @ > 0 THEN @ - 1 ELSE @]
    ELSE [b EXCEPT !.fb = Tail(@), !.mb = Tail(@),
                   !.lsf = IF @ > 0 THEN @ - 1 ELSE @]

\* variant of TrimBuffer: trims one frame late
TrimBufferLate(b) ==
    IF Len(b.fb) > max_buffer + 1 THEN PopOldest(b) ELSE b

\* _trim_buffer: while len(self.frames_buffer) > self.max_buffer
RECURSIVE TrimBuffer(_)
TrimBuffer(b) ==
    IF Len(b.fb) > max_buffer THEN TrimBuffer(PopOldest(b)) ELSE b

\* the elbow angle the backward search reads at buffer index i
AngleAt(b, i) ==
    IF variant = "live" THEN At(b.ea, i)
    ELSE IF i < Len(b.mb) THEN At(b.mb, i).elbow_angle ELSE None

\* variant of Assigns: "<=" for "<", a later equal angle replaces the load
AssignsLatest(w, search_start, i) ==
    /\ Truthy(w[i])
    /\ w[i] < Inf
    /\ \A j \in search_start .. (i - 1) : Truthy(w[j]) => w[i] <= w[j]

\* The loop "for i in range(search_start, release_idx)" over the angles w
\* (w[i] is the angle read at index i): min_angle starts at inf and holds
\* the least truthy angle seen so far, so the loop assigns load_idx = i
\* exactly when w[i] is truthy and strictly below every truthy angle at
\* search_start .. i-1.
Assigns(w, search_start, i) ==
    /\ Truthy(w[i])
    /\ w[i] < Inf
    /\ \A j \in search_start .. (i - 1) : Truthy(w[j]) => w[i] < w[j]

\* load_idx and min_angle after the loop: the values of its last
\* assignment (release_idx and inf when it made none)
LoadScan(w, search_start, release_idx) ==
    LET hits == {i \in search_start .. (release_idx - 1) :
                    Assigns(w, search_start, i)}
    IN  IF hits = {}
        THEN [load_idx |-> release_idx, min_angle |-> Inf]
        ELSE LET last == CHOOSE i \in hits : \A j \in hits : j <= i
             IN  [load_idx |-> last, min_angle |-> w[last]]

\* "Search backward for LOAD"
FindLoad(b, release_idx) ==
    LET search_start == Max(0, release_idx - SEARCH_WINDOW) IN
    CHOOSE found \in
        {LoadScan(w, search_start, release_idx) :
            w \in {[i \in search_start .. (release_idx - 1) |->
                       AngleAt(b, i)]}} : TRUE

\* variant of Fraction: the percentage is truncated before the product
FractionIntegerPercent(shot_duration, pct) == shot_duration * (pct \div 100)

\* variant of Fraction: the fraction is taken from the release end
FractionReversed(shot_duration, pct) == (shot_duration * (100 - pct)) \div 100

\* variant of Fraction: rounds to the nearest frame (round for int)
FractionRounded(shot_duration, pct) == (shot_duration * pct + 50) \div 100

\* int(shot_duration * 0.20) etc.; pct is 20, 40, 60 or 80
Fraction(shot_duration, pct) == (shot_duration * pct) \div 100

\* variant of Clamp: the upper limit is one short
ClampShort(b, i) == Max(0, Min(i, Len(b.fb) - 2))

\* def clamp(i)
Clamp(b, i) == Max(0, Min(i, Len(b.fb) - 1))

\* _create_shot_from_release / _create_shot after the duration test:
\* the key-frame indices and the event
BuildShot(b, release_idx, found, release_angle, sc) ==
    LET L == found.load_idx
        D == release_idx - L
        stance == Clamp(b, Max(0, L - PAD_FRAMES))
        load == Clamp(b, L)
        mid1 == Clamp(b, L + Fraction(D, 20))
        mid2 == Clamp(b, L + Fraction(D, 40))
        mid3 == Clamp(b, L + Fraction(D, 60))
        mid4 == Clamp(b, L + Fraction(D, 80))
        release == Clamp(b, release_idx)
        follow == Clamp(b, Min(release_idx + PAD_FRAMES, Len(b.fb) - 1))
        rel_angle ==
            IF variant = "live"
            THEN LET ra == IF release < Len(b.ea) THEN At(b.ea, release) ELSE 0
                 IN  IF Truthy(ra) THEN ra ELSE DEFAULT_RELEASE_ANGLE
            ELSE release_angle
    IN  [shot_number |-> IF variant = "live" THEN 0 ELSE sc + 1,
         stance_idx |-> stance, load_idx |-> load,
         mid1_idx |-> mid1, mid2_idx |-> mid2, mid3_idx |-> mid3,
         mid4_idx |-> mid4, release_idx |-> release,
         followthrough_idx |-> follow,
         load_angle |-> found.min_angle, release_angle |-> rel_angle,
         timestamp |-> None,
         frames |-> <<At(b.fb, stance), At(b.fb, load), At(b.fb, mid1),
                      At(b.fb, mid2), At(b.fb, mid3), At(b.fb, mid4),
                      At(b.fb, release), At(b.fb, follow)>>,
         buffer_length |-> Len(b.fb)]

\* variant of LongEnough: one frame less is accepted
LongEnoughLoose(release_idx, found) ==
    release_idx - found.load_idx >= MIN_SHOT_FRAMES - 1

\* "Validate minimum distance"
LongEnough(release_idx, found) ==
    release_idx - found.load_idx >= MIN_SHOT_FRAMES

\* _create_shot_from_release / _create_shot: <<>> for None, else <<event>>
CreateShot(b, release_idx, release_angle, sc) ==
    CHOOSE r \in
        {IF LongEnough(release_idx, found)
         THEN <<BuildShot(b, release_idx, found, release_angle, sc)>>
         ELSE <<>> : found \in {FindLoad(b, release_idx)}} : TRUE

\* "Need stability and cooldown"
Stable(sc) == sc >= STABILITY_REQUIRED

\* variant of CooledDown: the cooldown ends one frame early
CooledDownEarly(current_idx, lsf) ==
    current_idx - lsf >= attrs.COOLDOWN_FRAMES - 1

\* not "current_idx - self.last_shot_frame < self.COOLDOWN_FRAMES"
CooledDown(current_idx, lsf) == current_idx - lsf >= attrs.COOLDOWN_FRAMES

\* variant of IsRelease: ">=" for ">" on the release angle
IsReleaseLoose(f) ==
    /\ Truthy(ElbowAngle(f))
    /\ ElbowAngle(f) >= RELEASE_ANGLE
    /\ WristAboveShoulder(f)

\* "DETECT RELEASE: elbow extended AND wrist above shoulder"
IsRelease(f) ==
    /\ Truthy(ElbowAngle(f))
    /\ ElbowAngle(f) > RELEASE_ANGLE
    /\ WristAboveShoulder(f)

\* the frames fed so far, by frame number
HistFrame(sc, i) == MotionFrame(sc[(i \div Stride) + 1], i % Stride)

(* ------------------- reference detector, no eviction ------------------ *)
\* The same detector with a buffer that never evicts: buffer index =
\* frame number.  Its elbow angle list is the whole history.
RefFindLoad(sc, release) ==
    LET search_start == Max(0, release - SEARCH_WINDOW) IN
    CHOOSE found \in
        {LoadScan(w, search_start, release) :
            w \in {[i \in search_start .. (release - 1) |->
                       ElbowAngle(HistFrame(sc, i))]}} : TRUE

\* <<>> or the event <<[release, load, load_angle]>>, in frame numbers
RefUpdate(sc, num, f, stab, rlsf) ==
    IF Stable(stab) /\ CooledDown(num, rlsf) /\ IsRelease(f)
    THEN LET found == RefFindLoad(sc, num) IN
         IF LongEnough(num, found)
         THEN <<[release |-> num, load |-> found.load_idx,
                 load_angle |-> found.min_angle]>>
         ELSE <<>>
    ELSE <<>>

(* ----------------------------- actions -------------------------------- *)
\* no request to /analyze is being handled
NoRequest ==
    [pc |-> "none", detected_shots |-> <<>>, analyzed_shots |-> <<>>,
     raised |-> "no", status |-> 0, shots |-> <<>>]

\* LiveState() as LiveAnalyzer.__init__ creates it
FreshSession ==
    [shots_made |-> 0, shots_missed |-> 0, shot_metrics |-> <<>>,
     shot_history |-> <<>>]

\* PoseDetector.__init__: self.frame_count = 0
FreshPose ==
    [frame_count |-> 0, calls |-> 0, timestamp_ms |-> 0, regressed |-> FALSE,
     inside |-> {}, overlapped |-> FALSE, visual |-> TRUE]

\* a second detector after construction
FreshEngine ==
    [b |-> Bufs(<<>>, <<>>, <<>>, <<>>, <<>>, NO_SHOT_YET),
     stability_count |-> 0, shot_count |-> 0, shots |-> <<>>, ret |-> <<>>]

Init ==
    /\ variant \in {"live", "debug"}
    /\ script = <<>>
    /\ n = 0
    /\ frames_buffer = <<>>
    /\ landmarks_buffer = <<>>
    /\ elbow_angles = <<>>
    /\ wrist_heights = <<>>
    /\ metrics_buffer = <<>>
    /\ stability_count = 0
    /\ last_shot_frame = NO_SHOT_YET
    /\ shot_count = 0
    /\ shots = <<>>
    /\ ret = <<>>
    /\ last_reject = None
    /\ release_arg = None
    /\ ref_last_shot_frame = NO_SHOT_YET
    /\ ref_shots = <<>>
    /\ twin = FreshEngine
    /\ total_shots = 0
    /\ handed = <<>>
    /\ numbers = <<>>
    /\ drawn_over = {}
    /\ enabled = FALSE
    /\ workers = <<>>
    /\ exited = FALSE
    /\ request = NoRequest
    /\ session = FreshSession
    /\ pose = FreshPose
    /\ attrs = Constructed

\* variant of CurrentIdx: the index is taken before the trim
CurrentIdxBeforeTrim(b) ==
    IF n >= max_buffer THEN Len(b.fb) ELSE Len(b.fb) - 1

\* variant of CurrentIdx: the index is taken before the frame is stored
CurrentIdxBeforeAppend(b) ==
    IF n >= max_buffer THEN Len(b.fb) - 1 ELSE Len(b.fb) - 2

\* "IMPORTANT: Get current index AFTER trim"
CurrentIdx(b) == Len(b.fb) - 1

\* the three tests of update / process_frame that lead to
\* _create_shot(_from_release)
Fires(b, f, stab) ==
    Stable(stab) /\ CooledDown(CurrentIdx(b), b.lsf) /\ IsRelease(f)

\* The part of update / process_frame after the buffers are stored and
\* trimmed (b), with the new stability count stab: <<>> for None, else
\* <<event>>
Detect(b, f, stab, sc) ==
    IF Fires(b, f, stab)
    THEN CreateShot(b, CurrentIdx(b), ElbowAngle(f), sc)
    ELSE <<>>

\* timestamp=time.time() of ShotEvent; DetectedShot has no timestamp
Stamp(shot, t) ==
    IF shot = <<>> \/ variant = "debug" THEN shot
    ELSE <<[shot[1] EXCEPT !.timestamp = t]>>

\* variant of ShotCountAfter: no "self.shot_count -= 1" on rejection
ShotCountAfterNoUndo(sc, shot, fired) ==
    IF variant = "debug" /\ fired THEN sc + 1 ELSE sc

\* self.shot_count of the debugger when the call returns: _create_shot
\* adds one and takes it back when it rejects
ShotCountAfter(sc, shot, fired) ==
    IF variant = "debug" /\ fired
    THEN IF shot = <<>> THEN (sc + 1) - 1 ELSE sc + 1
    ELSE sc

\* variant of Numbered: the caller also stamps the event anew
NumberedRestamped(shot, total) ==
    IF shot = <<>> \/ variant = "debug" THEN shot
    ELSE <<[shot[1] EXCEPT !.shot_number = total + 1,
                           !.timestamp = total + 1]>>

\* the caller of update on an event: "self.state.total_shots += 1;
\* shot_event.shot_number = self.state.total_shots"; the debugger's caller
\* leaves the shot as it is
Numbered(shot, total) ==
    IF shot = <<>> \/ variant = "debug" THEN shot
    ELSE <<[shot[1] EXCEPT !.shot_number = total + 1]>>

\* variant of LastShotAfter: a rejected candidate starts the cooldown too
LastShotAfterAnyCandidate(b, shot, fired) ==
    IF fired THEN CurrentIdx(b) ELSE b.lsf

\* variant of LastShotAfter: a rejected candidate clears the cooldown
LastShotAfterRejectClears(b, shot, fired) ==
    IF shot # <<>> THEN CurrentIdx(b)
    ELSE IF fired THEN NO_SHOT_YET ELSE b.lsf

\* variant of LastShotAfter: the cooldown is counted from the wall-clock
\* time of the event, in frame periods
LastShotAfterByClock(b, shot, fired) ==
    IF shot # <<>>
    THEN CurrentIdx(b) + (IF shot[1].timestamp = None
                          THEN 0 ELSE shot[1].timestamp)
    ELSE b.lsf

\* self.last_shot_frame when the call returns: "if shot:
\* self.last_shot_frame = current_idx"
LastShotAfter(b, shot, fired) == IF shot # <<>> THEN CurrentIdx(b) ELSE b.lsf

\* LiveShotDetector.update / ShotDetectionDebugger.process_frame on the
\* next frame, which continues motion m
UpdateDetector(m) ==
    LET f == MotionFrame(m, n % Stride)
        stab == NextStability(stability_count, f)
        sc2 == IF n % Stride = 0 THEN Append(script, m) ELSE script
    IN  /\ n < MaxFrames
        /\ n % Stride # 0 => m = script[Len(script)]
        /\ \E b \in {TrimBuffer(AppendFrame(
                        Bufs(frames_buffer, landmarks_buffer, elbow_angles,
                             wrist_heights, metrics_buffer, last_shot_frame),
                        f, n))} :
           \E shot0 \in {Detect(b, f, stab, shot_count)} :
           \E t \in (IF shot0 = <<>> THEN {0} ELSE Ticks) :
           \E shot \in {Stamp(shot0, t)} :
           \E rshot \in {RefUpdate(sc2, n, f, stab, ref_last_shot_frame)} :
              /\ frames_buffer' = b.fb
              /\ landmarks_buffer' = b.lb
              /\ elbow_angles' = b.ea
              /\ wrist_heights' = b.wh
              /\ metrics_buffer' = b.mb
              /\ last_shot_frame' = LastShotAfter(b, shot, Fires(b, f, stab))
              /\ shot_count' = ShotCountAfter(shot_count, shot,
                                               Fires(b, f, stab))
              /\ total_shots' = IF variant = "live" /\ shot # <<>>
                                 THEN total_shots + 1 ELSE total_shots
              /\ handed' = Numbered(shot, total_shots)
              /\ numbers' = IF shot = <<>> THEN numbers
                             ELSE Append(numbers,
                                         Numbered(shot, total_shots)[1]
                                             .shot_number)
              /\ drawn_over' = IF variant = "live"
                                THEN drawn_over \cup {CallerFrame(n)}
                                ELSE drawn_over
              /\ shots' = shots \o shot0
              /\ ret' = shot
              /\ last_reject' = IF Fires(b, f, stab) /\ shot = <<>>
                                 THEN n ELSE last_reject
              /\ release_arg' = IF Fires(b, f, stab)
                                 THEN CurrentIdx(b) ELSE None
              /\ ref_last_shot_frame' =
                     IF rshot # <<>> THEN n ELSE ref_last_shot_frame
              /\ ref_shots' = ref_shots \o rshot
        /\ script' = sc2
        /\ n' = n + 1
        /\ stability_count' = stab
        /\ UNCHANGED <<variant, attrs>>

\* one detector fed the next frame
Update(m) ==
    /\ UpdateDetector(m)
    /\ UNCHANGED <<twin, enabled, workers, exited, request, session, pose>>

Next == \E m \in Motions : Update(m)

Spec == Init /\ [][Next]_vars

(* ------------------ two detectors fed the same frames ----------------- *)
\* update / process_frame of the detector e on frame f, number num, when
\* time.time() reads t: the detector afterwards, e.ret what the call returned
EngineStep(e, f, num, t) ==
    LET stab == NextStability(e.stability_count, f) IN
    CHOOSE r \in UNION {
        {[b |-> [b EXCEPT !.lsf = LastShotAfter(b, Stamp(shot, t),
                                                Fires(b, f, stab))],
          stability_count |-> stab,
          shot_count |-> ShotCountAfter(e.shot_count, shot,
                                        Fires(b, f, stab)),
          shots |-> e.shots \o shot,
          ret |-> Stamp(shot, t)] :
            shot \in {Detect(b, f, stab, e.shot_count)}} :
        b \in {TrimBuffer(AppendFrame(e.b, f, num))}} : TRUE

\* both detectors are fed the next frame; each reads the clock on its own
TwinUpdate(m) ==
    /\ UpdateDetector(m)
    /\ UNCHANGED <<enabled, workers, exited, request, session, pose>>
    /\ \E e0 \in {EngineStep(twin, MotionFrame(m, n % Stride), n, 0)} :
       \E t2 \in (IF e0.ret = <<>> THEN {0} ELSE Ticks) :
          twin' = IF t2 = 0 THEN e0
                  ELSE EngineStep(twin, MotionFrame(m, n % Stride), n, t2)

TwinNext == \E m \in Motions : TwinUpdate(m)

TwinSpec == Init /\ [][TwinNext]_vars

(* ------------- the frame loop with the analysis of events ------------- *)
\* how the try block of _analyze can end
Outcomes == {"ok", "import_error", "exception"}

\* shot.feedback after the try block of _analyze
FeedbackOf(outcome) ==
    CASE outcome = "ok" -> "from the model"
      [] outcome = "import_error" -> "Install: pip install google-generativeai"
      [] OTHER -> "Analysis error"

\* analyze_shot_async(shot, ...): with the client disabled the event is
\* marked, the callback called at once and no thread started; else a
\* daemon thread running _analyze is started.  The entry added to workers.
\* (returned: the event as update returned it, kept for comparison)
AnalyzeShotAsync(shot, returned, num) ==
    IF ~enabled
    THEN [shot |-> shot, returned |-> returned, processing |-> FALSE,
          feedback |-> "Set GEMINI_API_KEY for AI feedback",
          pc |-> "no_thread", callbacks |-> 1, processing_at_callback |-> FALSE,
          handed_at |-> num, made |-> "null", read |-> 0,
          passes |-> 0]
    ELSE [shot |-> shot, returned |-> returned, processing |-> TRUE,
          feedback |-> "None", pc |-> "running", callbacks |-> 0,
          processing_at_callback |-> TRUE, handed_at |-> num,
          made |-> "null", read |-> 0, passes |-> 0]

\* a LiveAnalyzer with a fresh LiveShotDetector and a GeminiClient with or
\* without an API key
AsyncInit ==
    /\ variant = "live"
    /\ enabled \in BOOLEAN
    /\ script = <<>>
    /\ n = 0
    /\ frames_buffer = <<>>
    /\ landmarks_buffer = <<>>
    /\ elbow_angles = <<>>
    /\ wrist_heights = <<>>
    /\ metrics_buffer = <<>>
    /\ stability_count = 0
    /\ last_shot_frame = NO_SHOT_YET
    /\ shot_count = 0
    /\ shots = <<>>
    /\ ret = <<>>
    /\ last_reject = None
    /\ release_arg = None
    /\ ref_last_shot_frame = NO_SHOT_YET
    /\ ref_shots = <<>>
    /\ twin = FreshEngine
    /\ total_shots = 0
    /\ handed = <<>>
    /\ numbers = <<>>
    /\ drawn_over = {}
    /\ workers = <<>>
    /\ exited = FALSE
    /\ request = NoRequest
    /\ session = FreshSession
    /\ pose = FreshPose
    /\ attrs = Constructed

\* one pass of the loop of LiveAnalyzer.run: update on the next frame, and
\* an event returned is numbered and given to analyze_shot_async
LoopIteration(m) ==
    /\ ~exited
    /\ n < MaxAsyncFrames
    /\ UpdateDetector(m)
    /\ workers' = IF handed' = <<>> THEN workers
                   ELSE Append(workers,
                               AnalyzeShotAsync(handed'[1], ret'[1], n))
    /\ UNCHANGED <<twin, enabled, exited, request, session, pose>>

\* the thread of workers[i] leaves the try block of _analyze: the result
\* fields are written, or the feedback of the except clause taken
WorkerAnalyze(i, outcome) ==
    /\ ~exited
    /\ workers[i].pc = "running"
    /\ workers' = [workers EXCEPT ![i].feedback = FeedbackOf(outcome),
                                   ![i].pc = "analyzed"]
    /\ UNCHANGED <<variant, script, n, frames_buffer, landmarks_buffer,
                   elbow_angles, wrist_heights, metrics_buffer,
                   stability_count, last_shot_frame, shot_count, shots, ret,
                   last_reject, release_arg, ref_last_shot_frame, ref_shots,
                   twin, total_shots, handed, numbers, drawn_over, enabled,
                   exited, attrs, request, session, pose>>

\* the thread of workers[i] runs "shot.processing = False; callback(shot)"
WorkerCallback(i) ==
    /\ ~exited
    /\ workers[i].pc = "analyzed"
    /\ workers' = [workers EXCEPT ![i].processing = FALSE,
                                   ![i].processing_at_callback = FALSE,
                                   ![i].callbacks = @ + 1,
                                   ![i].pc = "done"]
    /\ UNCHANGED <<variant, script, n, frames_buffer, landmarks_buffer,
                   elbow_angles, wrist_heights, metrics_buffer,
                   stability_count, last_shot_frame, shot_count, shots, ret,
                   last_reject, release_arg, ref_last_shot_frame, ref_shots,
                   twin, total_shots, handed, numbers, drawn_over, enabled,
                   exited, attrs, request, session, pose>>

\* the loop ends (the video file is at its end, or "q" was pressed), run
\* returns without joining the threads and the process exits: the daemon
\* threads still running stop where they are
Exit ==
    /\ ~exited
    /\ exited' = TRUE
    /\ workers' = [i \in 1 .. Len(workers) |->
                     IF workers[i].pc \in {"running", "analyzed"}
                     THEN [workers[i] EXCEPT !.pc = "killed"]
                     ELSE workers[i]]
    /\ UNCHANGED <<variant, script, n, frames_buffer, landmarks_buffer,
                   elbow_angles, wrist_heights, metrics_buffer,
                   stability_count, last_shot_frame, shot_count, shots, ret,
                   last_reject, release_arg, ref_last_shot_frame, ref_shots,
                   twin, total_shots, handed, numbers, drawn_over, enabled,
                   attrs, request, session, pose>>

AsyncNext ==
    \/ \E m \in Motions : LoopIteration(m)
    \/ \E i \in 1 .. Len(workers) : \E o \in Outcomes : WorkerAnalyze(i, o)
    \/ \E i \in 1 .. Len(workers) : WorkerCallback(i)
    \/ Exit

AsyncSpec == AsyncInit /\ [][AsyncNext]_vars

\* the buffers and the cooldown index of the current state
CurBufs ==
    Bufs(frames_buffer, landmarks_buffer, elbow_angles, wrist_heights,
         metrics_buffer, last_shot_frame)

(* ------------- _create_shot(_from_release) called directly ------------ *)
\* the buffers after frames 0 .. len-1 of the motions sc were stored
\* ("Store in buffers"), len <= max_buffer
StoredBufs(sc, len) ==
    Bufs([i \in 1 .. len |-> i - 1],
         IF variant = "live" THEN [i \in 1 .. len |-> i - 1] ELSE <<>>,
         IF variant = "live"
         THEN [i \in 1 .. len |-> ElbowAngle(HistFrame(sc, i - 1))] ELSE <<>>,
         IF variant = "live"
         THEN [i \in 1 .. len |-> WristY(HistFrame(sc, i - 1))] ELSE <<>>,
         IF variant = "live" THEN <<>>
         ELSE [i \in 1 .. len |-> Metrics(HistFrame(sc, i - 1), i - 1)],
         NO_SHOT_YET)

\* a detector whose buffers hold one or two motions, no event emitted yet
InitSearch ==
    /\ variant \in {"live", "debug"}
    /\ \E k \in 1 .. 2 : script \in [1 .. k -> Motions]
    /\ n \in ((Len(script) - 1) * Stride + 1) .. (Len(script) * Stride)
    /\ \E b \in {StoredBufs(script, n)} :
          /\ frames_buffer = b.fb
          /\ landmarks_buffer = b.lb
          /\ elbow_angles = b.ea
          /\ wrist_heights = b.wh
          /\ metrics_buffer = b.mb
    /\ stability_count = 0
    /\ last_shot_frame = NO_SHOT_YET
    /\ shot_count = 0
    /\ shots = <<>>
    /\ ret = <<>>
    /\ last_reject = None
    /\ release_arg = None
    /\ ref_last_shot_frame = NO_SHOT_YET
    /\ ref_shots = <<>>
    /\ twin = FreshEngine
    /\ total_shots = 0
    /\ handed = <<>>
    /\ numbers = <<>>
    /\ drawn_over = {}
    /\ enabled = FALSE
    /\ workers = <<>>
    /\ exited = FALSE
    /\ request = NoRequest
    /\ session = FreshSession
    /\ pose = FreshPose
    /\ attrs = Constructed

\* the release indices tried: the newest frame, and frames with fewer and
\* with more than PAD_FRAMES frames after them
ReleaseArgs(len) == {r \in {len - 1, len - 4, len - 9} : r >= 0}

\* one call _create_shot_from_release(release_idx) /
\* _create_shot(release_idx, release_angle)
CreateShotFromRelease(release_idx) ==
    /\ release_arg = None
    /\ \E shot \in {CreateShot(CurBufs, release_idx,
                                 AngleAt(CurBufs, release_idx), shot_count)} :
          /\ ret' = shot
          /\ shots' = shots \o shot
          /\ shot_count' = ShotCountAfter(shot_count, shot, TRUE)
          /\ last_reject' = IF shot = <<>> THEN release_idx ELSE last_reject
    /\ release_arg' = release_idx
    /\ UNCHANGED <<variant, script, n, frames_buffer, landmarks_buffer,
                   elbow_angles, wrist_heights, metrics_buffer,
                   stability_count, last_shot_frame, ref_last_shot_frame,
                   ref_shots, twin, total_shots, handed, numbers,
                   drawn_over, enabled, workers, exited, attrs, request,
                   session, pose>>

NextSearch == \E r \in ReleaseArgs(n) : CreateShotFromRelease(r)

SearchSpec == InitSearch /\ [][NextSearch]_vars

(* ------------- a detector with its attributes reassigned -------------- *)
\* values given to max_buffer and COOLDOWN_FRAMES: capacities below, at and
\* above the cooldown length, and the constructed values
Configurations ==
    {[max_buffer |-> c, COOLDOWN_FRAMES |-> d] :
        c \in {40, 45, 46, 60}, d \in {20, 45}}

\* a detector after construction whose max_buffer and COOLDOWN_FRAMES were
\* then assigned, before the first frame
ConfigInit ==
    /\ variant \in {"live", "debug"}
    /\ attrs \in Configurations \cup {Constructed}
    /\ script = <<>>
    /\ n = 0
    /\ frames_buffer = <<>>
    /\ landmarks_buffer = <<>>
    /\ elbow_angles = <<>>
    /\ wrist_heights = <<>>
    /\ metrics_buffer = <<>>
    /\ stability_count = 0
    /\ last_shot_frame = NO_SHOT_YET
    /\ shot_count = 0
    /\ shots = <<>>
    /\ ret = <<>>
    /\ last_reject = None
    /\ release_arg = None
    /\ ref_last_shot_frame = NO_SHOT_YET
    /\ ref_shots = <<>>
    /\ twin = FreshEngine
    /\ total_shots = 0
    /\ handed = <<>>
    /\ numbers = <<>>
    /\ drawn_over = {}
    /\ enabled = FALSE
    /\ workers = <<>>
    /\ exited = FALSE
    /\ request = NoRequest
    /\ session = FreshSession
    /\ pose = FreshPose

\* update / process_frame of that detector on the next frame
ConfigUpdate(m) == n < MaxConfigFrames /\ Update(m)

ConfigNext == \E m \in Motions : ConfigUpdate(m)

ConfigSpec == ConfigInit /\ [][ConfigNext]_vars

(* ------- the same frames fed to the live detector, then the debugger --- *)
\* the live detector is fed the next frame
LiveFeed(m) == "tape" \notin DOMAIN twin /\ Update(m)

\* The live run has ended.  A ShotDetectionDebugger is constructed to be
\* fed the same frames; the frames fed and the events of the live detector
\* are kept in twin for comparison.
Handover ==
    /\ "tape" \notin DOMAIN twin
    /\ n = MaxFrames
    /\ twin' = [tape |-> script, fed |-> n, shots |-> shots]
    /\ variant' = "debug"
    /\ attrs' = Constructed'
    /\ script' = <<>>
    /\ n' = 0
    /\ frames_buffer' = <<>>
    /\ landmarks_buffer' = <<>>
    /\ elbow_angles' = <<>>
    /\ wrist_heights' = <<>>
    /\ metrics_buffer' = <<>>
    /\ stability_count' = 0
    /\ last_shot_frame' = NO_SHOT_YET
    /\ shot_count' = 0
    /\ shots' = <<>>
    /\ ret' = <<>>
    /\ last_reject' = None
    /\ release_arg' = None
    /\ ref_last_shot_frame' = NO_SHOT_YET
    /\ ref_shots' = <<>>
    /\ total_shots' = 0
    /\ handed' = <<>>
    /\ numbers' = <<>>
    /\ drawn_over' = {}
    /\ UNCHANGED <<enabled, workers, exited, request, session, pose>>

\* the debugger is fed the next of the frames the live detector was fed
Replay(m) ==
    /\ "tape" \in DOMAIN twin
    /\ n < twin.fed
    /\ m = twin.tape[(n \div Stride) + 1]
    /\ Update(m)

CrossInit == Init /\ variant = "live"

CrossNext ==
    \/ \E m \in Motions : LiveFeed(m)
    \/ Handover
    \/ \E m \in Motions : Replay(m)

CrossSpec == CrossInit /\ [][CrossNext]_vars

(* ------ the frame loop, the analysis threads and their callbacks ------ *)
\* result.get("made") of the parsed answer
MadeValues == {"true", "false", "null"}

\* int(self.frame_count * 33.33)
TimestampMs(frame_count) == (frame_count * 3333) \div 100

\* detect_for_video(mp_image, timestamp_ms) is called: the call is counted,
\* the timestamp kept, and it is noted whether it is above the one of the
\* call before
Passed(p, timestamp_ms) ==
    [p EXCEPT !.calls = @ + 1,
              !.timestamp_ms = timestamp_ms,
              !.regressed = @ \/ (p.calls > 0 /\ timestamp_ms <= p.timestamp_ms)]

\* PoseDetector.detect run by the thread of the frame loop:
\* "self.frame_count += 1", the timestamp, detect_for_video
DetectCall(p) ==
    [Passed(p, TimestampMs(p.frame_count + 1)) EXCEPT
        !.frame_count = p.frame_count + 1,
        !.overlapped = @ \/ p.inside # {}]

\* the store of "self.state.shots_made += 1" / "self.state.shots_missed
\* += 1" in on_shot_analyzed: the value read before, plus one
Counted(sess, made, read) ==
    IF made = "true" THEN [sess EXCEPT !.shots_made = read + 1]
    ELSE IF made = "false" THEN [sess EXCEPT !.shots_missed = read + 1]
    ELSE sess

\* what the "+= 1" of on_shot_analyzed reads for shot.made
CounterRead(sess, made) ==
    IF made = "true" THEN sess.shots_made
    ELSE IF made = "false" THEN sess.shots_missed
    ELSE 0

\* shot_metrics.append(...) and shot_history.append(...) of
\* on_shot_analyzed
Recorded(sess, number, made) ==
    [sess EXCEPT !.shot_metrics =
                     Append(@, [shot_number |-> number, made |-> made]),
                 !.shot_history =
                     Append(@, [number |-> number, made |-> made])]

\* on_shot_analyzed and _generate_shot_visualization come to the call
\* self.pose.detect(release_frame): the visual feedback module was imported
\* and the event has more than four key frames
Visualized(shot) == pose.visual /\ Len(shot.frames) > 4

\* the threads that are inside on_shot_analyzed
InCallback ==
    {i \in 1 .. Len(workers) :
        workers[i].pc \in {"cb_count", "cb_append", "cb_detect",
                           "detect_store", "detect_call"}}

\* a LiveAnalyzer after construction: GeminiClient with or without an API
\* key, the visual feedback module imported or not
SessionInit ==
    /\ variant = "live"
    /\ enabled \in BOOLEAN
    /\ \E v \in BOOLEAN : pose = [FreshPose EXCEPT !.visual = v]
    /\ session = FreshSession
    /\ request = NoRequest
    /\ attrs = Constructed
    /\ script = <<>>
    /\ n = 0
    /\ frames_buffer = <<>>
    /\ landmarks_buffer = <<>>
    /\ elbow_angles = <<>>
    /\ wrist_heights = <<>>
    /\ metrics_buffer = <<>>
    /\ stability_count = 0
    /\ last_shot_frame = NO_SHOT_YET
    /\ shot_count = 0
    /\ shots = <<>>
    /\ ret = <<>>
    /\ last_reject = None
    /\ release_arg = None
    /\ ref_last_shot_frame = NO_SHOT_YET
    /\ ref_shots = <<>>
    /\ twin = FreshEngine
    /\ total_shots = 0
    /\ handed = <<>>
    /\ numbers = <<>>
    /\ drawn_over = {}
    /\ workers = <<>>
    /\ exited = FALSE

\* One pass of the loop of LiveAnalyzer.run: pose.detect on the frame read,
\* update, and an event returned is numbered and given to
\* analyze_shot_async; with the client disabled on_shot_analyzed runs at
\* once, in the thread of the loop.  (The loop passes at most
\* MaxCallbackPasses times while one callback is running.)
SessionLoop(m) ==
    /\ n < MaxSessionFrames
    /\ \A i \in InCallback : workers[i].passes < MaxCallbackPasses
    /\ UpdateDetector(m)
    /\ \E p \in {DetectCall(pose)} :
       \E w \in {[i \in 1 .. Len(workers) |->
                    IF i \in InCallback
                    THEN [workers[i] EXCEPT !.passes = @ + 1]
                    ELSE workers[i]]} :
          IF handed' = <<>>
          THEN /\ pose' = p
               /\ workers' = w
               /\ UNCHANGED session
          ELSE /\ workers' = Append(w, AnalyzeShotAsync(handed'[1], ret'[1], n))
               /\ IF enabled
                  THEN /\ pose' = p
                       /\ UNCHANGED session
                  ELSE /\ session' = Recorded(session,
                                              handed'[1].shot_number, "null")
                       /\ pose' = IF Visualized(handed'[1])
                                  THEN DetectCall(p) ELSE p
    /\ UNCHANGED <<twin, enabled, exited, request>>

\* the thread of workers[i] leaves the try block of _analyze: shot.made and
\* the other result fields are written from the answer, or the feedback of
\* the except clause is taken
SessionAnalyze(i, outcome, made) ==
    /\ workers[i].pc = "running"
    /\ outcome # "ok" => made = "null"
    /\ workers' = [workers EXCEPT ![i].feedback = FeedbackOf(outcome),
                                   ![i].made = made,
                                   ![i].pc = "analyzed"]
    /\ UNCHANGED <<variant, script, n, frames_buffer, landmarks_buffer,
                   elbow_angles, wrist_heights, metrics_buffer,
                   stability_count, last_shot_frame, shot_count, shots, ret,
                   last_reject, release_arg, ref_last_shot_frame, ref_shots,
                   twin, total_shots, handed, numbers, drawn_over, enabled,
                   exited, attrs, request, session, pose>>

\* the thread of workers[i] runs "shot.processing = False; callback(shot)"
\* up to the read of the counter in "self.state.shots_made += 1" (or
\* shots_missed); with shot.made None it goes on to the appends
CallbackEnter(i) ==
    /\ workers[i].pc = "analyzed"
    /\ workers' = [workers EXCEPT
                      ![i].processing = FALSE,
                      ![i].processing_at_callback = FALSE,
                      ![i].callbacks = @ + 1,
                      ![i].read = CounterRead(session, workers[i].made),
                      ![i].pc = IF workers[i].made = "null"
                                THEN "cb_append" ELSE "cb_count"]
    /\ UNCHANGED <<variant, script, n, frames_buffer, landmarks_buffer,
                   elbow_angles, wrist_heights, metrics_buffer,
                   stability_count, last_shot_frame, shot_count, shots, ret,
                   last_reject, release_arg, ref_last_shot_frame, ref_shots,
                   twin, total_shots, handed, numbers, drawn_over, enabled,
                   exited, attrs, request, session, pose>>

\* the store of "self.state.shots_made += 1" (or shots_missed)
CallbackCount(i) ==
    /\ workers[i].pc = "cb_count"
    /\ session' = Counted(session, workers[i].made, workers[i].read)
    /\ workers' = [workers EXCEPT ![i].pc = "cb_append", ![i].read = 0]
    /\ UNCHANGED <<variant, script, n, frames_buffer, landmarks_buffer,
                   elbow_angles, wrist_heights, metrics_buffer,
                   stability_count, last_shot_frame, shot_count, shots, ret,
                   last_reject, release_arg, ref_last_shot_frame, ref_shots,
                   twin, total_shots, handed, numbers, drawn_over, enabled,
                   exited, attrs, request, pose>>

\* the appends to shot_metrics and shot_history; then, with the visual
\* feedback module, _generate_shot_visualization is entered
CallbackAppend(i) ==
    /\ workers[i].pc = "cb_append"
    /\ session' = Recorded(session, workers[i].shot.shot_number,
                           workers[i].made)
    /\ workers' = [workers EXCEPT ![i].pc = IF Visualized(workers[i].shot)
                                            THEN "cb_detect" ELSE "done"]
    /\ UNCHANGED <<variant, script, n, frames_buffer, landmarks_buffer,
                   elbow_angles, wrist_heights, metrics_buffer,
                   stability_count, last_shot_frame, shot_count, shots, ret,
                   last_reject, release_arg, ref_last_shot_frame, ref_shots,
                   twin, total_shots, handed, numbers, drawn_over, enabled,
                   exited, attrs, request, pose>>

\* _generate_shot_visualization in the thread of workers[i] calls
\* self.pose.detect(release_frame): the thread enters detect and reads
\* frame_count for "self.frame_count += 1"
CallbackDetectEnter(i) ==
    /\ workers[i].pc = "cb_detect"
    /\ pose' = [pose EXCEPT !.inside = @ \cup {i},
                            !.overlapped = @ \/ pose.inside # {}]
    /\ workers' = [workers EXCEPT ![i].read = pose.frame_count,
                                   ![i].pc = "detect_store"]
    /\ UNCHANGED <<variant, script, n, frames_buffer, landmarks_buffer,
                   elbow_angles, wrist_heights, metrics_buffer,
                   stability_count, last_shot_frame, shot_count, shots, ret,
                   last_reject, release_arg, ref_last_shot_frame, ref_shots,
                   twin, total_shots, handed, numbers, drawn_over, enabled,
                   exited, attrs, request, session>>

\* the store of "self.frame_count += 1" in the thread of workers[i]
CallbackDetectStore(i) ==
    /\ workers[i].pc = "detect_store"
    /\ pose' = [pose EXCEPT !.frame_count = workers[i].read + 1]
    /\ workers' = [workers EXCEPT ![i].pc = "detect_call", ![i].read = 0]
    /\ UNCHANGED <<variant, script, n, frames_buffer, landmarks_buffer,
                   elbow_angles, wrist_heights, metrics_buffer,
                   stability_count, last_shot_frame, shot_count, shots, ret,
                   last_reject, release_arg, ref_last_shot_frame, ref_shots,
                   twin, total_shots, handed, numbers, drawn_over, enabled,
                   exited, attrs, request, session>>

\* "timestamp_ms = int(self.frame_count * 33.33)" and detect_for_video in
\* the thread of workers[i]; the thread leaves detect and the callback
CallbackDetectCall(i) ==
    /\ workers[i].pc = "detect_call"
    /\ pose' = [Passed(pose, TimestampMs(pose.frame_count)) EXCEPT
                   !.inside = @ \ {i}]
    /\ workers' = [workers EXCEPT ![i].pc = "done"]
    /\ UNCHANGED <<variant, script, n, frames_buffer, landmarks_buffer,
                   elbow_angles, wrist_heights, metrics_buffer,
                   stability_count, last_shot_frame, shot_count, shots, ret,
                   last_reject, release_arg, ref_last_shot_frame, ref_shots,
                   twin, total_shots, handed, numbers, drawn_over, enabled,
                   exited, attrs, request, session>>

SessionNext ==
    \/ \E m \in Motions : SessionLoop(m)
    \/ \E i \in 1 .. Len(workers) : \E o \in Outcomes :
          \E made \in MadeValues : SessionAnalyze(i, o, made)
    \/ \E i \in 1 .. Len(workers) : CallbackEnter(i)
    \/ \E i \in 1 .. Len(workers) : CallbackCount(i)
    \/ \E i \in 1 .. Len(workers) : CallbackAppend(i)
    \/ \E i \in 1 .. Len(workers) : CallbackDetectEnter(i)
    \/ \E i \in 1 .. Len(workers) : CallbackDetectStore(i)
    \/ \E i \in 1 .. Len(workers) : CallbackDetectCall(i)

SessionSpec == SessionInit /\ [][SessionNext]_vars

(* ------------------------ the /analyze endpoint ----------------------- *)
\* variant of StatusOf: no "except HTTPException: raise" clause
StatusOfNoPassThrough(status_code) == 500

\* The except clauses of analyze_video: an HTTPException leaves with its
\* own status_code, any other exception (status_code 0 here) is turned
\* into HTTPException(status_code=500)
StatusOf(status_code) == IF status_code # 0 THEN status_code ELSE 500

\* analyze_video has saved the upload, constructed PoseDetector and
\* LiveShotDetector and opened the video
AnalyzeInit ==
    /\ variant = "live"
    /\ request = [pc |-> "scanning", detected_shots |-> <<>>,
                  analyzed_shots |-> <<>>, raised |-> "no", status |-> 0,
                  shots |-> <<>>]
    /\ attrs = Constructed
    /\ script = <<>>
    /\ n = 0
    /\ frames_buffer = <<>>
    /\ landmarks_buffer = <<>>
    /\ elbow_angles = <<>>
    /\ wrist_heights = <<>>
    /\ metrics_buffer = <<>>
    /\ stability_count = 0
    /\ last_shot_frame = NO_SHOT_YET
    /\ shot_count = 0
    /\ shots = <<>>
    /\ ret = <<>>
    /\ last_reject = None
    /\ release_arg = None
    /\ ref_last_shot_frame = NO_SHOT_YET
    /\ ref_shots = <<>>
    /\ twin = FreshEngine
    /\ total_shots = 0
    /\ handed = <<>>
    /\ numbers = <<>>
    /\ drawn_over = {}
    /\ enabled = TRUE
    /\ workers = <<>>
    /\ exited = FALSE
    /\ session = FreshSession
    /\ pose = FreshPose

\* one pass of "while True": a frame is read and given to update; a shot
\* returned gets "shot.shot_number = len(detected_shots) + 1" and is
\* appended to detected_shots
ScanFrame(m) ==
    /\ request.pc = "scanning"
    /\ n < MaxScanFrames
    /\ UpdateDetector(m)
    /\ request' =
          IF ret' = <<>> THEN request
          ELSE [request EXCEPT !.detected_shots =
                   Append(@, [ret'[1] EXCEPT !.shot_number =
                                  Len(request.detected_shots) + 1])]
    /\ UNCHANGED <<twin, enabled, workers, exited, session, pose>>

\* the response when the handler is left by an exception raised at "at"
Failed(at, status_code) ==
    [request EXCEPT !.pc = "responded", !.raised = at,
                    !.status = StatusOf(status_code), !.shots = <<>>]

\* cap.read() returns no frame: "if not detected_shots: raise
\* HTTPException(status_code=404, ...)", else the analysis begins
EndOfVideo ==
    /\ request.pc = "scanning"
    /\ request' = IF request.detected_shots = <<>>
                  THEN Failed("no shots", 404)
                  ELSE [request EXCEPT !.pc = "analyzing"]
    /\ UNCHANGED <<variant, script, n, frames_buffer, landmarks_buffer,
                   elbow_angles, wrist_heights, metrics_buffer,
                   stability_count, last_shot_frame, shot_count, shots, ret,
                   last_reject, release_arg, ref_last_shot_frame, ref_shots,
                   twin, total_shots, handed, numbers, drawn_over, enabled,
                   workers, exited, attrs, session, pose>>

\* a statement of the scanning loop raises (reading or converting a frame)
ScanRaises ==
    /\ request.pc = "scanning"
    /\ request' = Failed("scan", 0)
    /\ UNCHANGED <<variant, script, n, frames_buffer, landmarks_buffer,
                   elbow_angles, wrist_heights, metrics_buffer,
                   stability_count, last_shot_frame, shot_count, shots, ret,
                   last_reject, release_arg, ref_last_shot_frame, ref_shots,
                   twin, total_shots, handed, numbers, drawn_over, enabled,
                   workers, exited, attrs, session, pose>>

\* one pass of "for idx, shot_event in enumerate(detected_shots, 1)": the
\* model answers and the answer is parsed, giving a ShotAnalysis, or a
\* statement raises (the import, generate_content, json.loads, ...)
AnalyzeNextShot(ok, made) ==
    /\ request.pc = "analyzing"
    /\ request' =
          IF ok
          THEN LET idx == Len(request.analyzed_shots) + 1 IN
               [request EXCEPT
                   !.analyzed_shots =
                       Append(@, [shot_number |->
                                      request.detected_shots[idx].shot_number,
                                  made |-> made]),
                   !.pc = IF idx = Len(request.detected_shots)
                          THEN "summarising" ELSE "analyzing"]
          ELSE Failed("shot", 0)
    /\ UNCHANGED <<variant, script, n, frames_buffer, landmarks_buffer,
                   elbow_angles, wrist_heights, metrics_buffer,
                   stability_count, last_shot_frame, shot_count, shots, ret,
                   last_reject, release_arg, ref_last_shot_frame, ref_shots,
                   twin, total_shots, handed, numbers, drawn_over, enabled,
                   workers, exited, attrs, session, pose>>

\* the session summary: SessionSummary(..., shots=analyzed_shots) is
\* returned (status 200), or generate_content / json.loads raises
Summarise(ok) ==
    /\ request.pc = "summarising"
    /\ request' =
          IF ok
          THEN [request EXCEPT !.pc = "responded", !.status = 200,
                               !.shots = request.analyzed_shots]
          ELSE Failed("summary", 0)
    /\ UNCHANGED <<variant, script, n, frames_buffer, landmarks_buffer,
                   elbow_angles, wrist_heights, metrics_buffer,
                   stability_count, last_shot_frame, shot_count, shots, ret,
                   last_reject, release_arg, ref_last_shot_frame, ref_shots,
                   twin, total_shots, handed, numbers, drawn_over, enabled,
                   workers, exited, attrs, session, pose>>

AnalyzeNext ==
    \/ \E m \in Motions : ScanFrame(m)
    \/ EndOfVideo
    \/ ScanRaises
    \/ \E ok \in BOOLEAN : \E made \in MadeValues : AnalyzeNextShot(ok, made)
    \/ \E ok \in BOOLEAN : Summarise(ok)

AnalyzeSpec == AnalyzeInit /\ [][AnalyzeNext]_vars

(* ====================== properties of the detector ==================== *)
\* the configured capacity of the variant
Capacity == IF variant = "live" THEN MAX_BUFFER_LIVE ELSE MAX_BUFFER_DEBUG

\* frame number of the release of the i-th event, and of its load
ReleaseFrame(i) == shots[i].frames[7]
LoadFrame(i) == shots[i].frames[2]
LastRelease == ReleaseFrame(Len(shots))

\* the last call rejected its release candidate (minimum duration)
Rejected == n > 0 /\ last_reject = n - 1

\* a frame with the three lead-side joints present and visibility > 0.5
Qualifies(f) ==
    \A g \in {f} :
        /\ g.shoulder /\ g.elbow /\ g.wrist
        /\ g.vis_shoulder > 50 /\ g.vis_elbow > 50 /\ g.vis_wrist > 50

\* a frame with a defined angle above 155 and the wrist above the shoulder
ReleasePose(f) ==
    /\ f.shoulder /\ f.elbow /\ f.wrist
    /\ f.angle > 155
    /\ f.wrist_y < f.shoulder_y

(* C1: after every call the frame buffer holds at most max_buffer entries  *)
(* (180 live, 200 debug), the parallel buffers have the same length and    *)
(* hold the data of the same frames, and the buffer is exactly the newest  *)
(* frames in the order fed: only the oldest entries have been removed.     *)
C1_BoundedFifoBuffers ==
    LET len == Len(frames_buffer) IN
    /\ len <= Capacity
    /\ len = Min(n, Capacity)
    /\ \A i \in 1 .. len : frames_buffer[i] = n - len + i - 1
    /\ IF variant = "live"
       THEN /\ Len(landmarks_buffer) = len
            /\ Len(elbow_angles) = len
            /\ Len(wrist_heights) = len
            /\ \A i \in 1 .. len :
                  LET f == HistFrame(script, frames_buffer[i]) IN
                  /\ landmarks_buffer[i] = frames_buffer[i]
                  /\ elbow_angles[i] = ElbowAngle(f)
                  /\ wrist_heights[i] = WristY(f)
       ELSE /\ Len(metrics_buffer) = len
            /\ \A i \in 1 .. len :
                  metrics_buffer[i] =
                      Metrics(HistFrame(script, frames_buffer[i]),
                              frames_buffer[i])

\* the buffer is full and frames have been evicted, in the debugger
C1_Witness ==
    /\ variant = "debug"
    /\ n > MAX_BUFFER_DEBUG + 5
    /\ Len(frames_buffer) = MAX_BUFFER_DEBUG
    /\ frames_buffer[1] > 5

(* C2: on every frame the cooldown test on buffer indices,                 *)
(* current_idx - last_shot_frame >= 45, decides as the test on frame       *)
(* numbers does (no release accepted yet, or at least 45 frames since the  *)
(* last accepted release), whether or not frames were evicted since.  In a *)
(* call that emitted, the test passed, and last_shot_frame was then        *)
(* overwritten: there the frame-number test must have passed too.          *)
C2_CooldownAgrees ==
    n > 0 =>
        IF ret # <<>>
        THEN Len(shots) >= 2 =>
                 (n - 1) - ReleaseFrame(Len(shots) - 1) >= COOLDOWN_FRAMES
        ELSE ((Len(frames_buffer) - 1) - last_shot_frame >= COOLDOWN_FRAMES)
             <=> (shots = <<>> \/ (n - 1) - LastRelease >= COOLDOWN_FRAMES)

\* the cooldown blocks a frame although the release has been re-based
C2_Witness ==
    /\ shots # <<>>
    /\ ret = <<>>
    /\ last_shot_frame > 0
    /\ last_shot_frame < shots[Len(shots)].release_idx - 20
    /\ (n - 1) - LastRelease < COOLDOWN_FRAMES

(* C3: two events of one detector are at least 45 frames apart, release    *)
(* frame to release frame; a candidate rejected by the minimum-duration    *)
(* rule is no previous event: after it last_shot_frame still is the        *)
(* initial value, or the buffer index of the last accepted release.        *)
C3_EventsApart ==
    /\ \A i \in 2 .. Len(shots) :
          ReleaseFrame(i) - ReleaseFrame(i - 1) >= 45
    /\ Rejected =>
          /\ shots = <<>> => last_shot_frame = NO_SHOT_YET
          /\ shots # <<>> /\ last_shot_frame > 0 =>
                 At(frames_buffer, last_shot_frame) = LastRelease

\* a candidate is rejected after two events were emitted
C3_Witness ==
    /\ Rejected
    /\ Len(shots) >= 2
    /\ ReleaseFrame(2) - ReleaseFrame(1) = 45

(* C4: an event is emitted on a frame only if that frame and the 7 frames  *)
(* before it each had shoulder, elbow and wrist present with visibility    *)
(* strictly above 0.5, and stability_count is then at least 8.             *)
C4_StableRun ==
    ret # <<>> =>
        /\ stability_count >= 8
        /\ n >= 8
        /\ \A i \in (n - 8) .. (n - 1) : Qualifies(HistFrame(script, i))

\* an event on the eighth frame of a run of qualifying frames
C4_Witness ==
    /\ ret # <<>>
    /\ stability_count = 8
    /\ n >= 9
    /\ ~Qualifies(HistFrame(script, n - 9))

(* C5: every emitted event has release_index - load_index >= 10, and a     *)
(* candidate whose located load is fewer than 10 frames before the release *)
(* frame produces no event on that frame.                                  *)
C5_MinDuration ==
    /\ \A i \in 1 .. Len(shots) :
          shots[i].release_idx - shots[i].load_idx >= 10
    /\ Rejected =>
          /\ ret = <<>>
          /\ (Len(frames_buffer) - 1)
                 - FindLoad(CurBufs, Len(frames_buffer) - 1).load_idx < 10

\* an event of duration exactly 10, one frame after a rejected candidate
C5_Witness ==
    /\ ret # <<>>
    /\ ret[1].release_idx - ret[1].load_idx = 10
    /\ last_reject = n - 2

(* C6: the key-frame indices of every emitted event satisfy                *)
(* 0 <= stance <= load <= mid1 <= mid2 <= mid3 <= mid4 <= release <=       *)
(* follow_through <= buffer_length - 1, buffer_length being the length of  *)
(* the buffer when the event was emitted.                                  *)
C6_KeyFramesOrdered ==
    \A i \in 1 .. Len(shots) :
        LET e == shots[i] IN
        /\ 0 <= e.stance_idx
        /\ e.stance_idx <= e.load_idx
        /\ e.load_idx <= e.mid1_idx
        /\ e.mid1_idx <= e.mid2_idx
        /\ e.mid2_idx <= e.mid3_idx
        /\ e.mid3_idx <= e.mid4_idx
        /\ e.mid4_idx <= e.release_idx
        /\ e.release_idx <= e.followthrough_idx
        /\ e.followthrough_idx <= e.buffer_length - 1

\* an event sampled from a full buffer, with a stance before the load
C6_Witness ==
    /\ ret # <<>>
    /\ ret[1].buffer_length = Capacity
    /\ 0 < ret[1].stance_idx
    /\ ret[1].stance_idx < ret[1].load_idx
    /\ ret[1].mid1_idx < ret[1].mid4_idx

(* C7: a call emits an event if and only if, for its frame, (a) the        *)
(* stability count is at least 8, (b) current_idx - last_shot_frame >= 45  *)
(* after the trim, (c) the elbow angle is defined and above 155 and the    *)
(* wrist's y is below the shoulder's y, and (d) the located load is at     *)
(* least 10 frames before the release; otherwise it returns no event.      *)
C7_EmitsIff ==
    [][n' = n + 1 =>
         \A f \in {HistFrame(script', n)} :
         \A b \in {TrimBuffer(AppendFrame(CurBufs, f, n))} :
            (ret' # <<>>) <=>
                /\ stability_count' >= 8
                /\ (Len(b.fb) - 1) - b.lsf >= 45
                /\ ReleasePose(f)
                /\ (Len(b.fb) - 1) - FindLoad(b, Len(b.fb) - 1).load_idx >= 10
      ]_vars

\* an event emitted from a full buffer, 45 frames after the previous one
C7_Witness ==
    /\ ret # <<>>
    /\ Len(shots) >= 2
    /\ n > Capacity
    /\ LastRelease - ReleaseFrame(Len(shots) - 1) = 45

(* C8: fed to a fresh detector, 60 frames at 170 degrees with the wrist    *)
(* above the shoulder and full visibility (motion hold), then 20 frames    *)
(* descending to 80 and 15 frames rising back to 170 (the first 35 frames  *)
(* of motion shot) produce exactly one event in the 95 frames, with        *)
(* release_index 94 and the load at the minimum-angle frame, about 75.     *)
C8_ScenarioOneEvent ==
    (script = <<"hold", "shot">> /\ n = 95) =>
        /\ Len(shots) = 1
        /\ shots[1].release_idx = 94
        /\ shots[1].load_idx \in 70 .. 80

(* C9: a call that rejects its release candidate leaves last_shot_frame    *)
(* as it was (re-based when the call evicted a frame), and a frame that    *)
(* satisfies stability, the release threshold, the wrist-above flag and    *)
(* the minimum duration, at least 45 frames after the last accepted        *)
(* release, emits an event however recently a candidate was rejected.      *)
C9_RejectionKeepsCooldown ==
    [][n' = n + 1 =>
         /\ last_reject' = n =>
                /\ ret' = <<>>
                /\ last_shot_frame' =
                       IF Len(frames_buffer) = Capacity /\ last_shot_frame > 0
                       THEN last_shot_frame - 1
                       ELSE last_shot_frame
         /\ ( /\ stability_count' >= 8
              /\ ReleasePose(HistFrame(script', n))
              /\ shots = <<>> \/ n - LastRelease >= 45
              /\ (Len(frames_buffer') - 1)
                    - FindLoad(Bufs(frames_buffer', landmarks_buffer',
                                    elbow_angles', wrist_heights',
                                    metrics_buffer', last_shot_frame'),
                               Len(frames_buffer') - 1).load_idx >= 10 )
            => ret' # <<>>
      ]_vars

\* an event fewer than 45 frames after a rejected candidate, itself later
\* than an earlier event
C9_Witness ==
    /\ ret # <<>>
    /\ Len(shots) >= 2
    /\ last_reject # None
    /\ last_reject > ReleaseFrame(Len(shots) - 1)
    /\ (n - 1) - last_reject < 45

(* C10: the detector with the bounded buffer emits the same events as the  *)
(* reference detector that never evicts: the same release frames, the same *)
(* load frames and load angles, also after the buffer has overflowed.      *)
C10_SameAsUnbounded ==
    /\ Len(shots) = Len(ref_shots)
    /\ \A i \in 1 .. Len(shots) :
          /\ ReleaseFrame(i) = ref_shots[i].release
          /\ LoadFrame(i) = ref_shots[i].load
          /\ shots[i].load_angle = ref_shots[i].load_angle

\* an event whose backward search reaches 60 frames back in a buffer that
\* has evicted more than 20 frames
C10_Witness ==
    /\ ret # <<>>
    /\ n > Capacity + 20
    /\ ret[1].release_idx = Capacity - 1
    /\ ret[1].release_idx - ret[1].load_idx > 30
    /\ ret[1].load_angle < 100

(* C11: for a call with release index R, the load index is the earliest    *)
(* index of the window max(0, R-60) .. R-1 whose elbow angle is the least  *)
(* among the frames of the window with a defined angle; an event is        *)
(* returned when that load is at least 10 frames before R, with that load  *)
(* index and angle; when no frame of the window has a defined angle, or    *)
(* the load is nearer, no event is returned.                               *)
C11_EarliestMinimalLoad ==
    release_arg # None =>
        LET R == release_arg
            window == (IF R - 60 > 0 THEN R - 60 ELSE 0) .. (R - 1)
        IN  \A ang \in {[i \in window |->
                            LET f == HistFrame(script, i)
                            IN  IF f.shoulder /\ f.elbow /\ f.wrist
                                THEN f.angle ELSE None]} :
            \A defined \in {{i \in window : ang[i] # None}} :
            \A least \in {{i \in defined :
                              \A j \in defined : ang[i] <= ang[j]}} :
                IF defined = {}
                THEN ret = <<>>
                ELSE \E L \in least :
                        /\ \A j \in least : L <= j
                        /\ IF R - L >= 10
                           THEN /\ ret # <<>>
                                /\ ret[1].load_idx = L
                                /\ ret[1].load_angle = ang[L]
                           ELSE ret = <<>>

\* an event whose window starts after the buffer start, holds frames
\* without an angle, and holds a later frame with the load's angle
C11_Witness ==
    /\ release_arg # None
    /\ release_arg > 60
    /\ ret # <<>>
    /\ \E i \in (release_arg - 60) .. (release_arg - 1) :
          ElbowAngle(HistFrame(script, i)) = None
    /\ \E i \in (ret[1].load_idx + 1) .. (release_arg - 1) :
          ElbowAngle(HistFrame(script, i)) = ret[1].load_angle

(* C12: for every event returned for release index R, with load index L    *)
(* and D = R - L, the key-frame indices are mid1 = L + floor(0.20 D),      *)
(* mid2 = L + floor(0.40 D), mid3 = L + floor(0.60 D), mid4 = L +          *)
(* floor(0.80 D), stance = max(0, L - 5), follow_through = min(R + 5,      *)
(* buffer_length - 1), each clamped into 0 .. buffer_length - 1, and the   *)
(* eight frames of the event are the buffer's frames at these indices.     *)
C12_SamplerFormulas ==
    (release_arg # None /\ ret # <<>>) =>
        LET e == ret[1]
            R == release_arg
            L == e.load_idx
            D == R - L
            last == Len(frames_buffer) - 1
            clamped(x) == IF x < 0 THEN 0 ELSE IF x > last THEN last ELSE x
        IN  /\ e.buffer_length = Len(frames_buffer)
            /\ e.mid1_idx = clamped(L + D \div 5)
            /\ e.mid2_idx = clamped(L + (2 * D) \div 5)
            /\ e.mid3_idx = clamped(L + (3 * D) \div 5)
            /\ e.mid4_idx = clamped(L + (4 * D) \div 5)
            /\ e.stance_idx = clamped(IF L - 5 > 0 THEN L - 5 ELSE 0)
            /\ e.followthrough_idx =
                   clamped(IF R + 5 < last THEN R + 5 ELSE last)
            /\ e.release_idx = clamped(R)
            /\ e.frames = <<frames_buffer[e.stance_idx + 1],
                            frames_buffer[e.load_idx + 1],
                            frames_buffer[e.mid1_idx + 1],
                            frames_buffer[e.mid2_idx + 1],
                            frames_buffer[e.mid3_idx + 1],
                            frames_buffer[e.mid4_idx + 1],
                            frames_buffer[e.release_idx + 1],
                            frames_buffer[e.followthrough_idx + 1]>>

\* an event whose stance stops at the buffer start, whose follow-through
\* stops at the newest frame, and whose duration is no multiple of 5
C12_Witness ==
    /\ release_arg # None
    /\ ret # <<>>
    /\ release_arg = Len(frames_buffer) - 4
    /\ ret[1].followthrough_idx = Len(frames_buffer) - 1
    /\ ret[1].load_idx < 5
    /\ ret[1].stance_idx = 0
    /\ (release_arg - ret[1].load_idx) % 5 = 3

(* C13: two detectors of the same class, freshly constructed and fed the   *)
(* same frames, return events on the same frames, with the same key-frame  *)
(* indices, frames and load and release angles, and their stability count, *)
(* cooldown index and buffers agree, whatever the clock reads in either.   *)
C13_SameEventsWhateverTheClock ==
    /\ twin.shots = shots
    /\ (twin.ret = <<>>) <=> (ret = <<>>)
    /\ ret # <<>> =>
          [twin.ret[1] EXCEPT !.timestamp = None]
              = [ret[1] EXCEPT !.timestamp = None]
    /\ twin.stability_count = stability_count
    /\ twin.shot_count = shot_count
    /\ twin.b = CurBufs

\* both detectors emitted on a frame after the buffer overflowed, with
\* different clock readings, not for the first time
C13_Witness ==
    /\ ret # <<>>
    /\ twin.ret # <<>>
    /\ n > Capacity
    /\ Len(shots) >= 2
    /\ ret[1].timestamp # None
    /\ ret[1].timestamp # twin.ret[1].timestamp

(* C14: the events passed on carry the numbers 1, 2, 3, ... in order, one  *)
(* per accepted event, rejected candidates taking none; the debugger's     *)
(* shot_count equals len(shots) after every process_frame, and its shots   *)
(* are numbered by their position.                                         *)
C14_OrdinalsConsecutive ==
    /\ Len(numbers) = Len(shots)
    /\ \A i \in 1 .. Len(numbers) : numbers[i] = i
    /\ variant = "debug" =>
          /\ shot_count = Len(shots)
          /\ \A i \in 1 .. Len(shots) : shots[i].shot_number = i
    /\ variant = "live" => total_shots = Len(shots)

\* the debugger returns its third shot after a candidate was rejected
\* since its second
C14_Witness ==
    /\ variant = "debug"
    /\ ret # <<>>
    /\ ret[1].shot_number = 3
    /\ last_reject # None
    /\ last_reject > ReleaseFrame(2)

(* C15: a call whose release candidate is rejected by the minimum-duration *)
(* rule changes the detector as a call without a candidate does: the      *)
(* frame is stored (the oldest evicted and last_shot_frame re-based when   *)
(* the buffer was full), the stability count goes up by one as for any     *)
(* well-visible frame, and last_shot_frame otherwise, the ordinal, the     *)
(* list of events and the caller's count stay as they were; nothing is     *)
(* returned.                                                               *)
C15_RejectionLikeNoEvent ==
    [][(n' = n + 1 /\ last_reject' = n) =>
         LET full == Len(frames_buffer) = Capacity
             stored(buf, x) == IF full THEN Tail(Append(buf, x))
                               ELSE Append(buf, x)
             f == HistFrame(script', n)
         IN  /\ ret' = <<>>
             /\ handed' = <<>>
             /\ shots' = shots
             /\ numbers' = numbers
             /\ shot_count' = shot_count
             /\ total_shots' = total_shots
             /\ stability_count' = stability_count + 1
             /\ last_shot_frame' = IF full /\ last_shot_frame > 0
                                    THEN last_shot_frame - 1
                                    ELSE last_shot_frame
             /\ frames_buffer' = stored(frames_buffer, n)
             /\ IF variant = "live"
                THEN /\ landmarks_buffer' = stored(landmarks_buffer, n)
                     /\ elbow_angles' = stored(elbow_angles, f.angle)
                     /\ wrist_heights' = stored(wrist_heights, f.wrist_y)
                     /\ metrics_buffer' = metrics_buffer
                ELSE /\ metrics_buffer' =
                            stored(metrics_buffer,
                                   [frame_num |-> n, elbow_angle |-> f.angle,
                                    wrist_height |-> f.wrist_y])
                     /\ UNCHANGED <<landmarks_buffer, elbow_angles,
                                    wrist_heights>>
      ]_vars

\* the debugger rejects a candidate with its buffer full, the last release
\* still in the buffer, after two shots
C15_Witness ==
    /\ variant = "debug"
    /\ Rejected
    /\ n > MAX_BUFFER_DEBUG + 1
    /\ shot_count = 2
    /\ last_shot_frame > 0
    /\ stability_count > 8

(* C16: an event, once returned, is changed by no later call: its key      *)
(* frames, indices and angles stay as returned, its frames are arrays the  *)
(* caller never draws on, and they stay the frames of its key instants     *)
(* (as many frames before the release frame as the indices say), also      *)
(* when the buffer no longer holds them.                                   *)
C16_EventsKeepTheirFrames ==
    [][/\ Len(shots') >= Len(shots)
       /\ \A i \in 1 .. Len(shots) : shots'[i] = shots[i]
       /\ \A i \in 1 .. Len(shots') :
             LET e == shots'[i]
                 idx == <<e.stance_idx, e.load_idx, e.mid1_idx, e.mid2_idx,
                          e.mid3_idx, e.mid4_idx, e.release_idx,
                          e.followthrough_idx>>
             IN  \A k \in 1 .. 8 :
                    /\ e.frames[k] \notin drawn_over'
                    /\ e.frames[7] - e.frames[k] = e.release_idx - idx[k]
      ]_vars

\* the live detector returns a second event when the buffer has evicted
\* every frame of the first
C16_Witness ==
    /\ variant = "live"
    /\ Len(shots) >= 2
    /\ ret # <<>>
    /\ ReleaseFrame(1) < frames_buffer[1]
    /\ ReleaseFrame(1) - LoadFrame(1) > 10

(* C17: a ShotEvent is immutable once emitted: after update has returned   *)
(* it, no field of it is written again by any part of the program (every   *)
(* event given to the analysis is as update returned it: shot_number 0,    *)
(* processing True, no feedback).                                          *)
C17_NoFieldWrittenAgain ==
    \A i \in 1 .. Len(workers) :
        /\ workers[i].shot = workers[i].returned
        /\ workers[i].processing = TRUE
        /\ workers[i].feedback = "None"

(* C17 as amended: the detection fields of a ShotEvent (frames, timestamp, *)
(* load and release angle) are never written after update has returned    *)
(* it; the caller writes shot_number once, before it hands the event on,   *)
(* and the result fields (processing, feedback, ...) are written only by   *)
(* the analysis the event was handed to, up to its callback.               *)
C17_DetectionFieldsImmutable ==
    [][/\ Len(workers') >= Len(workers)
       /\ \A i \in 1 .. Len(workers') :
             /\ [workers'[i].shot EXCEPT !.shot_number = 0]
                    = workers'[i].returned
             /\ workers'[i].shot.shot_number = i
       /\ \A i \in 1 .. Len(workers) :
             /\ workers'[i].shot = workers[i].shot
             /\ ( \/ workers'[i].feedback # workers[i].feedback
                  \/ workers'[i].processing # workers[i].processing )
                => /\ workers[i].pc \in {"running", "analyzed"}
                   /\ workers'[i].pc \in {"analyzed", "done"}
                   /\ workers'[i].pc # workers[i].pc
      ]_vars

\* the second event has been analysed by the model and its callback
\* called, while the first is still being analysed
C17_Witness ==
    /\ Len(workers) = 2
    /\ workers[2].pc = "done"
    /\ workers[2].feedback = "from the model"
    /\ workers[2].shot.shot_number = 2
    /\ workers[1].pc = "running"

(* C18: a call on a frame in which the lead-side shoulder, elbow or wrist  *)
(* is missing (an empty landmark map included) completes, returns no       *)
(* event, stores the frame as the newest entry of the buffers with the     *)
(* angle None (not 0), and leaves stability_count at 0.                    *)
C18_MissingJointsNoEvent ==
    (n > 0 /\ \E f \in {HistFrame(script, n - 1)} :
                   ~(f.shoulder /\ f.elbow /\ f.wrist)) =>
        /\ ret = <<>>
        /\ handed = <<>>
        /\ stability_count = 0
        /\ frames_buffer # <<>>
        /\ frames_buffer[Len(frames_buffer)] = n - 1
        /\ IF variant = "live"
           THEN /\ elbow_angles[Len(elbow_angles)] = None
                /\ elbow_angles[Len(elbow_angles)] # 0
                /\ wrist_heights[Len(wrist_heights)] = None
           ELSE /\ metrics_buffer[Len(metrics_buffer)].elbow_angle = None
                /\ metrics_buffer[Len(metrics_buffer)].elbow_angle # 0
                /\ metrics_buffer[Len(metrics_buffer)].frame_num = n - 1

\* an empty landmark map arrives after a well-visible frame, with the
\* buffer full and events returned before
C18_Witness ==
    /\ n > Capacity
    /\ shots # <<>>
    /\ \E f \in {HistFrame(script, n - 1)} :
          ~f.shoulder /\ ~f.elbow /\ ~f.wrist
    /\ Qualifies(HistFrame(script, n - 2))
    /\ stability_count = 0

(* C19: the follow-through key frame of every returned event is a frame    *)
(* after the release: the frame 5 frames after the release frame.          *)
C19_FollowThroughAfterRelease ==
    \A i \in 1 .. Len(shots) :
        /\ shots[i].followthrough_idx = shots[i].release_idx + 5
        /\ shots[i].frames[8] = shots[i].frames[7] + 5

(* C20: every event given to analyze_shot_async has its callback called    *)
(* exactly once, with processing False, on every path (client disabled,    *)
(* analysis succeeded, import error, other exception): never twice, at     *)
(* once when the client is disabled, and when the program has ended no     *)
(* event is left whose callback was not called.                            *)
C20_CallbackExactlyOnce ==
    \A i \in 1 .. Len(workers) :
        /\ workers[i].callbacks <= 1
        /\ workers[i].callbacks = 1 => ~workers[i].processing_at_callback
        /\ ~enabled => workers[i].callbacks = 1
        /\ exited => workers[i].callbacks = 1

(* C21: after every call stability_count is the length of the unbroken run *)
(* of qualifying frames (three lead-side joints present, visibility above  *)
(* 0.5) that ends with the newest frame: a qualifying frame added one, any *)
(* other frame set it to 0; and a frame that resets the count is stored as *)
(* any other, the buffers keeping every frame they held (but the oldest,   *)
(* when they were full).                                                   *)
C21_StabilityIsTrailingRun ==
    [][n' = n + 1 =>
         LET f == HistFrame(script', n)
             run == stability_count'
             full == Len(frames_buffer) = Capacity
             stored(buf, x) == IF full THEN Tail(Append(buf, x))
                               ELSE Append(buf, x)
         IN  /\ run = IF Qualifies(f) THEN stability_count + 1 ELSE 0
             /\ run <= n'
             /\ \A i \in (n' - run) .. (n' - 1) :
                    Qualifies(HistFrame(script', i))
             /\ run < n' => ~Qualifies(HistFrame(script', (n' - 1) - run))
             /\ run = 0 =>
                    /\ frames_buffer' = stored(frames_buffer, n)
                    /\ IF variant = "live"
                       THEN /\ landmarks_buffer' = stored(landmarks_buffer, n)
                            /\ elbow_angles' =
                                   stored(elbow_angles, ElbowAngle(f))
                            /\ wrist_heights' =
                                   stored(wrist_heights, WristY(f))
                       ELSE /\ Len(metrics_buffer') = Len(frames_buffer')
                            /\ \A k \in 1 .. (Len(metrics_buffer') - 1) :
                                   metrics_buffer'[k] =
                                       stored(metrics_buffer,
                                              metrics_buffer'[
                                                  Len(metrics_buffer')])[k]
      ]_vars

\* a run restarted after a frame of visibility exactly 0.5, all joints
\* present, with the buffer full
C21_Witness ==
    /\ n > Capacity
    /\ stability_count \in 1 .. 7
    /\ \E f \in {HistFrame(script, (n - 1) - stability_count)} :
          /\ f.shoulder /\ f.elbow /\ f.wrist
          /\ f.vis_elbow = 50

C23_OrderWithinCall ==
    [][n' = n + 1 =>
         LET len == Len(frames_buffer')
             evicted == (Len(frames_buffer) + 1) - len
             rebased == IF evicted = 1 /\ last_shot_frame > 0
                        THEN last_shot_frame - 1 ELSE last_shot_frame
         IN  /\ len = IF n' < Capacity THEN n' ELSE Capacity
             /\ evicted \in {0, 1}
             /\ evicted = 1 <=> Len(frames_buffer) = Capacity
             /\ frames_buffer'[len] = n
             /\ release_arg' # None =>
                    /\ release_arg' = len - 1
                    /\ stability_count' >= 8
                    /\ (len - 1) - rebased >= 45
             /\ ret' = <<>> => last_shot_frame' = rebased
             /\ ret' # <<>> =>
                    /\ release_arg' = len - 1
                    /\ last_shot_frame' = len - 1
                    /\ ret'[1].release_idx = len - 1
                    /\ ret'[1].frames[7] = n
                    /\ ret'[1].load_idx >=
                           (IF len - 61 > 0 THEN len - 61 ELSE 0)
                    /\ ret'[1].buffer_length = len
      ]_vars

\* an event on the eighth frame of a stable run, in a call that evicted a
\* frame while the previous release was still in the buffer
C23_Witness ==
    /\ ret # <<>>
    /\ n > Capacity + 1
    /\ stability_count = 8
    /\ Len(shots) >= 2
    /\ ReleaseFrame(Len(shots) - 1) > frames_buffer[1]

(* C24: fed the frames the live detector (capacity 180) was fed, the       *)
(* debugger (capacity 200) returns events on the same frames as the live   *)
(* detector did, with the same load and release frames, the same duration  *)
(* and the same load and release angles.                                   *)
C24_LiveAndDebugAgree ==
    "tape" \in DOMAIN twin =>
        \A live \in {twin.shots} :
        \A due \in {{i \in 1 .. Len(live) : live[i].frames[7] < n}} :
            /\ Len(shots) = Cardinality(due)
            /\ \A i \in 1 .. Len(shots) :
                   /\ shots[i].frames[7] = live[i].frames[7]
                   /\ shots[i].frames[2] = live[i].frames[2]
                   /\ shots[i].release_idx - shots[i].load_idx
                          = live[i].release_idx - live[i].load_idx
                   /\ shots[i].load_angle = live[i].load_angle
                   /\ shots[i].release_angle = live[i].release_angle

\* the debugger returns an event the live detector returned from a full
\* buffer while the debugger's is not full yet, at another buffer index
C24_Witness ==
    /\ "tape" \in DOMAIN twin
    /\ ret # <<>>
    /\ n > MAX_BUFFER_LIVE
    /\ n <= MAX_BUFFER_DEBUG
    /\ Len(shots) >= 2
    /\ twin.shots[Len(shots)].release_idx # ret[1].release_idx
    /\ ret[1].load_angle < ret[1].release_angle

(* C25: in /analyze the shots found are numbered 1 .. n in the order of    *)
(* detection; a video read to its end without a shot is answered with      *)
(* status 404; when the analysis of a shot or the session summary raises,  *)
(* the answer is status 500 and carries no shots, however many were        *)
(* analysed before; only a request in which nothing raised is answered     *)
(* with the list, one entry per detected shot.                             *)
C25_AnalyzeNumbersAndErrors ==
    \A r \in {request} :
        /\ \A i \in 1 .. Len(r.detected_shots) :
               /\ r.detected_shots[i].shot_number = i
               /\ i > 1 => r.detected_shots[i].frames[7]
                               > r.detected_shots[i - 1].frames[7]
        /\ \A i \in 1 .. Len(r.analyzed_shots) :
               r.analyzed_shots[i].shot_number = i
        /\ r.pc # "responded" => (r.status = 0 /\ r.shots = <<>>)
        /\ r.pc = "responded" =>
               /\ r.status \in {200, 404, 500}
               /\ r.status = 404 <=> r.raised = "no shots"
               /\ r.raised = "no shots" => r.detected_shots = <<>>
               /\ (r.detected_shots = <<>> /\ r.raised # "scan") =>
                      r.status = 404
               /\ r.raised \in {"shot", "summary", "scan"} => r.status = 500
               /\ r.status # 200 => r.shots = <<>>
               /\ r.status = 200 =>
                      /\ r.raised = "no"
                      /\ r.detected_shots # <<>>
                      /\ Len(r.shots) = Len(r.detected_shots)
                      /\ \A i \in 1 .. Len(r.shots) :
                             r.shots[i].shot_number = i

\* the second of two shots could not be analysed after the first was
C25_Witness ==
    /\ request.pc = "responded"
    /\ request.raised = "shot"
    /\ request.status = 500
    /\ Len(request.detected_shots) = 2
    /\ Len(request.analyzed_shots) = 1
    /\ request.shots = <<>>

(* C26: every event is returned by the call on the frame that triggered    *)
(* the release: its release index is the tail index of the buffer at that  *)
(* moment (buffer_length - 1), its release frame is the newest frame, and  *)
(* the buffer holds no frame after it when the key frames are sampled (so  *)
(* the follow-through index cannot exceed the release index).              *)
C26_ReleaseIsTail ==
    /\ \A i \in 1 .. Len(shots) :
           /\ shots[i].release_idx = shots[i].buffer_length - 1
           /\ shots[i].followthrough_idx <= shots[i].release_idx
           /\ \A k \in 1 .. 8 : shots[i].frames[k] <= shots[i].frames[7]
    /\ ret # <<>> =>
           /\ ret[1].release_idx = Len(frames_buffer) - 1
           /\ ret[1].buffer_length = Len(frames_buffer)
           /\ ret[1].frames[7] = frames_buffer[Len(frames_buffer)]
           /\ ret[1].frames[7] = n - 1
           /\ release_arg = Len(frames_buffer) - 1

\* an event returned from a full buffer, on the frame the elbow angle
\* first exceeds 155 after a bend
C26_Witness ==
    /\ ret # <<>>
    /\ n > Capacity
    /\ ret[1].release_idx = Capacity - 1
    /\ ret[1].release_angle > 155
    /\ ElbowAngle(HistFrame(script, n - 2)) <= 155
    /\ ret[1].load_angle < 100

(* C27: in every returned event load < mid1 < mid2 < mid3 < mid4 < release *)
(* as buffer indices, so no buffer frame appears under two of these six    *)
(* labels, and the duration release - load is at least 10 and at most 60.  *)
C27_SixIndicesStrictlyIncreasing ==
    \A i \in 1 .. Len(shots) :
        \A e \in {shots[i]} :
            /\ e.load_idx < e.mid1_idx
            /\ e.mid1_idx < e.mid2_idx
            /\ e.mid2_idx < e.mid3_idx
            /\ e.mid3_idx < e.mid4_idx
            /\ e.mid4_idx < e.release_idx
            /\ Cardinality({e.frames[k] : k \in 2 .. 7}) = 6
            /\ e.release_idx - e.load_idx >= 10
            /\ e.release_idx - e.load_idx <= 60

\* events of the shortest and of the longest duration have been returned,
\* the last one with a duration that is no multiple of 5
C27_Witness ==
    /\ Len(shots) >= 3
    /\ ret # <<>>
    /\ \E i \in 1 .. Len(shots) : shots[i].release_idx - shots[i].load_idx = 10
    /\ \E i \in 1 .. Len(shots) : shots[i].release_idx - shots[i].load_idx = 60
    /\ (ret[1].release_idx - ret[1].load_idx) % 5 # 0

(* C28: every returned event reports a load angle strictly below its       *)
(* release angle: the elbow was more bent at the load frame than at the    *)
(* release frame, and an arm held extended without bending gives no event. *)
C28_LoadBelowRelease ==
    \A i \in 1 .. Len(shots) : shots[i].load_angle < shots[i].release_angle

(* C29: with several analyses in flight, however the callbacks in the      *)
(* threads interleave with each other and with the frame loop,             *)
(* shots_made + shots_missed never exceeds total_shots, and once every     *)
(* callback has finished shots_made is the number of analysed shots with   *)
(* made true, shots_missed the number with made false, and shot_history    *)
(* and shot_metrics hold one entry per shot handed over: no update is      *)
(* lost.                                                                   *)
C29_NoLostUpdate ==
    /\ session.shots_made + session.shots_missed <= total_shots
    /\ (\A i \in 1 .. Len(workers) : workers[i].pc \in {"done", "no_thread"})
          =>
          /\ session.shots_made =
                 Cardinality({i \in 1 .. Len(workers) :
                                 workers[i].made = "true"})
          /\ session.shots_missed =
                 Cardinality({i \in 1 .. Len(workers) :
                                 workers[i].made = "false"})
          /\ Len(session.shot_history) = Len(workers)
          /\ Len(session.shot_metrics) = Len(workers)
          /\ \A i \in 1 .. Len(workers) :
                 /\ \E k \in 1 .. Len(session.shot_history) :
                        session.shot_history[k].number = i
                 /\ \E k \in 1 .. Len(session.shot_metrics) :
                        session.shot_metrics[k].shot_number = i

(* C30: PoseDetector.detect is never run by two threads at once: no thread *)
(* enters it while another is inside, so frame_count is the number of      *)
(* calls made (one more per call) and the timestamps passed to             *)
(* detect_for_video are strictly increasing from call to call.             *)
C30_DetectSingleThreaded ==
    /\ ~pose.overlapped
    /\ Cardinality(pose.inside) <= 1
    /\ pose.inside = {} => pose.frame_count = pose.calls
    /\ ~pose.regressed

====
